---- MODULE Spec2Model ----
(***************************************************************************)
(* Model of starsurf.py: a tabbed browser window (MainWindow) holding a    *)
(* QTabWidget of BrowserTab pages, an address bar (url_bar) and the        *)
(* handlers wired to the toolkit's signals.                                *)
(*                                                                         *)
(* Text is modelled as a sequence of tokens (each token a run of           *)
(* characters of one class: a word of letters, a number, ".", ":", "//",   *)
(* " ", ...), so that QUrl's scheme parsing and the "." test of            *)
(* navigate_to_url are computed, not assumed.  A QUrl is the record of     *)
(* its parsed scheme and the rest of the text.                             *)
(*                                                                         *)
(* Tab indices are 0-based as in the source; tabs[i + 1] is the page at    *)
(* index i.  The tab bar is not movable and pages are only appended, so    *)
(* display order is creation order and a BrowserTab object is named by the *)
(* index it has at the moment it is used (Closed once it has been removed  *)
(* from the tab widget).                                                   *)
(***************************************************************************)
EXTENDS Integers, Sequences, FiniteSets, TLC

\* Number of BrowserTab objects that can be alive at once.
MaxBrowsers == 3
\* Longest text (in tokens) typed in the address bar under SpecUrl.
MaxTextLen == 3
\* Most URL reports of one page the engine has produced and not yet delivered.
MaxPending == 2

VARIABLES
    tabs,         \* QTabWidget pages in display order: each BrowserTab's url() and title()
    labels,       \* QTabWidget tab texts, parallel to tabs
    current,      \* QTabWidget.currentIndex()
    url_bar,      \* QLineEdit text
    windowTitle,  \* QMainWindow window title
    deleted,      \* number of BrowserTabs closed with deleteLater() and not yet destroyed
    raised,       \* exception raised by the last handler ("" when none)
    editing,      \* the user has typed in the address bar and not pressed Return,
                  \* and no handler has called url_bar.setText since
    pending,      \* per page, the URL reports the engine produced, not yet delivered
    reported,     \* per page, the last URL the engine reported
    last          \* the last handler that ran (see Last)

vars == <<tabs, labels, current, url_bar, windowTitle, deleted, raised, editing,
          pending, reported, last>>

----------------------------------------------------------------------------
(* Text and QUrl *)

AlphaTok == {"http", "https", "localhost", "example", "com", "hello", "world",
             "b", "test", "x", "org", "www", "google", "q"}
DigitTok == {"8080"}
SchemeTailTok == AlphaTok \cup DigitTok \cup {".", "+", "-"}

\* QUrl parsing: index of the first ":" that precedes every "?" and "#" (0 if none).
Colon(text) ==
    LET stops == {i \in 1 .. Len(text) : text[i] \in {"?", "#"}}
        colons == {i \in 1 .. Len(text) :
                     /\ text[i] = ":"
                     /\ \A j \in stops : i < j}
    IN  IF colons = {} THEN 0
        ELSE CHOOSE i \in colons : \A j \in colons : i <= j

\* QUrl parsing: scheme = ALPHA *( ALPHA / DIGIT / "+" / "-" / "." ), not empty.
ValidScheme(s) ==
    /\ Len(s) >= 1
    /\ s[1] \in AlphaTok
    /\ \A i \in 2 .. Len(s) : s[i] \in SchemeTailTok

\* QUrl(text): the scheme (<<>> when the text has none) and the rest.
QUrl(text) ==
    LET c == Colon(text)
    IN  IF c > 0 /\ ValidScheme(SubSeq(text, 1, c - 1))
        THEN [scheme |-> SubSeq(text, 1, c - 1), rest |-> SubSeq(text, c + 1, Len(text))]
        ELSE [scheme |-> <<>>, rest |-> text]

\* QUrl.toString()
toString(q) ==
    IF q.scheme = <<>> THEN q.rest ELSE q.scheme \o <<":">> \o q.rest

DEFAULT_URL == <<"https", ":", "//", "www", ".", "google", ".", "com">>
HOME_URL == <<"https", ":", "//", "www", ".", "google", ".", "com">>
HttpsPrefix == <<"https", ":", "//">>
SearchPrefix == <<"https", ":", "//", "www", ".", "google", ".", "com", "/search", "?", "q", "=">>

\* "." in url_text
HasDot(text) == \E i \in 1 .. Len(text) : text[i] = "."

\* The QUrl navigate_to_url builds from the address bar text.
ResolveUrl(text) ==
    LET q == QUrl(text)
    IN  IF q.scheme = <<>>
        THEN IF HasDot(text)
             THEN QUrl(HttpsPrefix \o text)
             ELSE QUrl(SearchPrefix \o text)
        ELSE q

----------------------------------------------------------------------------
(* QTabWidget *)

\* What QTabWidget.widget() returns for an index out of range.
None == -1
\* A BrowserTab that has been removed from the tab widget.
Closed == -2

\* QTabWidget.indexOf(browser): -1 when browser is not a page.
indexOf(tbs, browser) ==
    IF browser >= 0 /\ browser < Len(tbs) THEN browser ELSE -1

\* QTabWidget.widget(index): the page at index, or None.
widget(tbs, index) ==
    IF index >= 0 /\ index < Len(tbs) THEN index ELSE None

\* QTabWidget.currentWidget()
currentWidget == widget(tabs, current)

\* Sequence s without its element at 0-based index.
RemoveAt(s, index) ==
    SubSeq(s, 1, index) \o SubSeq(s, index + 2, Len(s))

\* Faulty selections after removeTab: the index of a removed current tab is kept,
\* the tab to the left of a removed current tab is selected, and the index is
\* not shifted when a tab below the current one is removed.
IndexAfterRemoveNoClamp(index, cur, n) ==
    IF index < cur THEN cur - 1 ELSE cur

IndexAfterRemoveLeft(index, cur, n) ==
    IF index = cur
    THEN (IF index = 0 THEN 0 ELSE index - 1)
    ELSE IF index < cur THEN cur - 1 ELSE cur

IndexAfterRemoveNoShift(index, cur, n) ==
    IF index = cur
    THEN (IF index > n - 2 THEN n - 2 ELSE index)
    ELSE cur

\* currentIndex after removeTab(index) of one of n pages when cur was current
\* (the tab bar selects the tab to the right of a removed current tab).
IndexAfterRemove(index, cur, n) ==
    IF index = cur
    THEN (IF index > n - 2 THEN n - 2 ELSE index)
    ELSE IF index < cur THEN cur - 1 ELSE cur

\* Whether removeTab(index) emits currentChanged.
RemoveEmitsCurrentChanged(index, cur) == index <= cur

----------------------------------------------------------------------------
(* Handlers of MainWindow, as functions of the widgets' state *)

\* Faulty update_url_bar: the reporting page is not compared with the current one.
update_url_bar_any(q, browser, cw, bar) == toString(q)

\* Faulty update_url_bar: the address bar is never rewritten.
update_url_bar_never(q, browser, cw, bar) == bar

\* update_url_bar(q, browser): the address bar text afterwards; cw is currentWidget().
update_url_bar(q, browser, cw, bar) ==
    IF browser # cw THEN bar ELSE toString(q)

\* update_tab_title(title, browser): the tab texts afterwards.
update_tab_title_labels(t, browser, tbs, lbls) ==
    LET index == indexOf(tbs, browser)
    IN  IF index # -1 THEN [lbls EXCEPT ![index + 1] = t] ELSE lbls

\* f"Python Browser - {title}"
WindowTitle(t) == <<"Python Browser - ", t>>

\* Faulty update_tab_title: the window title follows any page of the tab widget.
update_tab_title_window_any(t, browser, tbs, cw, wt) ==
    IF indexOf(tbs, browser) # -1 THEN WindowTitle(t) ELSE wt

\* Faulty update_tab_title: the window title follows every page, in the tab
\* widget or not.
update_tab_title_window_unchecked(t, browser, tbs, cw, wt) == WindowTitle(t)

\* update_tab_title(title, browser): the window title afterwards; cw is currentWidget().
update_tab_title_window(t, browser, tbs, cw, wt) ==
    LET index == indexOf(tbs, browser)
    IN  IF index # -1 /\ browser = cw THEN WindowTitle(t) ELSE wt

\* Faulty update_ui_on_tab_change: the address bar is not refreshed.
ui_change_bar_stale(index, tbs, bar) == bar

\* update_ui_on_tab_change(index), run by currentChanged(index) when the page at
\* index has become the current widget: address bar, tab texts and window title.
\* (Were widget(index) None, None.url() would raise and nothing would be updated.)
ui_change_bar(index, tbs, bar) ==
    IF index # -1 /\ widget(tbs, index) # None
    THEN update_url_bar(tbs[index + 1].url, widget(tbs, index), widget(tbs, index), bar)
    ELSE bar

ui_change_labels(index, tbs, lbls) ==
    IF index # -1 /\ widget(tbs, index) # None
    THEN update_tab_title_labels(tbs[index + 1].title, widget(tbs, index), tbs, lbls)
    ELSE lbls

\* Faulty update_ui_on_tab_change: the window title is not refreshed.
ui_change_window_stale(index, tbs, wt) == wt

ui_change_window(index, tbs, wt) ==
    IF index # -1 /\ widget(tbs, index) # None
    THEN update_tab_title_window(tbs[index + 1].title, widget(tbs, index), tbs,
                                 widget(tbs, index), wt)
    ELSE wt

----------------------------------------------------------------------------
(* State *)

\* A freshly constructed BrowserTab has an empty title().
EmptyTitle == ""

B_TEST == <<"https", ":", "//", "b", ".", "test">>

\* URLs callers pass to add_new_tab, URLs and titles the engine reports, and
\* texts the user types in the address bar.
AddUrls == {QUrl(B_TEST)}
EngineUrls == {QUrl(DEFAULT_URL), QUrl(B_TEST)}
EngineTitles == {"", "Google"}
TypedTexts == {<<"hello">>, <<"b", ".", "test">>}

\* QWebEngineView.WebBrowserWindow and another window type of createWindow.
WindowTypes == {"WebBrowserWindow", "WebBrowserTab"}

\* Indices a caller may pass to close_tab and to the tab bar.
Indices == -1 .. MaxBrowsers

\* The pages the engine may report events for: those of the tab widget, and
\* Closed while a removed page awaits its deferred delete.
Alive == (0 .. Len(tabs) - 1) \cup (IF deleted > 0 THEN {Closed} ELSE {})

\* A page with no URL report in flight.
NoEvents == <<>>

\* Record of a handler run: its name, its argument, and currentIndex() and
\* count() of the tab widget when it started.
Last(op, arg) == [op |-> op, arg |-> arg, cur |-> current, n |-> Len(tabs)]

\* MainWindow.__init__: one tab on DEFAULT_URL, made current by the first addTab,
\* whose currentChanged(0) runs update_ui_on_tab_change(0).
Init ==
    /\ tabs = <<[url |-> QUrl(DEFAULT_URL), title |-> EmptyTitle]>>
    /\ labels = <<EmptyTitle>>
    /\ current = 0
    /\ url_bar = toString(QUrl(DEFAULT_URL))
    /\ windowTitle = WindowTitle(EmptyTitle)
    /\ deleted = 0
    /\ raised = ""
    /\ editing = FALSE
    /\ pending = <<NoEvents>>
    /\ reported = <<QUrl(DEFAULT_URL)>>
    /\ last = [op |-> "init", arg |-> 0, cur |-> 0, n |-> 0]

----------------------------------------------------------------------------
(* Operations *)

\* The url argument of add_new_tab: <<>> for None, <<q>> for the QUrl q.
NoUrl == <<>>
AddArgs == {NoUrl} \cup {<<q>> : q \in AddUrls}

\* The url add_new_tab loads: DEFAULT_URL when url is None.
AddUrl(u) == IF u = NoUrl THEN QUrl(DEFAULT_URL) ELSE u[1]

\* The pages after addTab(browser, label): browser is appended.
AddPage(tbs, page) == Append(tbs, page)

\* Faulty add_new_tab: setCurrentIndex is not called.
AddCurrentKept(i) == current

\* The index add_new_tab makes current: the index addTab returned.
AddCurrent(i) == i

\* add_new_tab(browser, url) for a new BrowserTab: setUrl before the signals are
\* connected, addTab(browser, "New Tab"), setCurrentIndex(i), whose
\* currentChanged(i) runs update_ui_on_tab_change(i).
add_new_tab(u, op) ==
    LET q == AddUrl(u)
        tbs == AddPage(tabs, [url |-> q, title |-> EmptyTitle])
        lbls == AddPage(labels, "New Tab")
        i == Len(tbs) - 1
        cur == AddCurrent(i)
    IN  /\ Len(tabs) + deleted < MaxBrowsers
        /\ tabs' = tbs
        /\ current' = cur
        /\ IF cur # current
           THEN /\ url_bar' = ui_change_bar(cur, tbs, url_bar)
                /\ labels' = ui_change_labels(cur, tbs, lbls)
                /\ windowTitle' = ui_change_window(cur, tbs, windowTitle)
                /\ editing' = FALSE
           ELSE /\ url_bar' = url_bar
                /\ labels' = lbls
                /\ windowTitle' = windowTitle
                /\ editing' = editing
        /\ pending' = AddPage(pending, NoEvents)
        /\ reported' = AddPage(reported, q)
        /\ raised' = ""
        /\ last' = Last(op, Len(u))
        /\ UNCHANGED deleted

\* The "New Tab" button (no url) or a caller of add_new_tab with a url.
AddNewTab(u) == add_new_tab(u, "add_new_tab")

\* BrowserTab.createWindow(type), called by the engine on a live page.
CreatesTab(type) == type = "WebBrowserWindow"

createWindow(type) ==
    IF CreatesTab(type)
    THEN add_new_tab(<<QUrl(DEFAULT_URL)>>, "createWindow")
    ELSE /\ raised' = ""
         /\ last' = Last("createWindow", None)
         /\ UNCHANGED <<tabs, labels, current, url_bar, windowTitle, deleted,
                        editing, pending, reported>>

\* Faulty guards of close_tab: off by one (count() < 1), and no guard at all.
CanCloseOffByOne(n) == ~(n < 1)
CanCloseAlways(n) == TRUE

\* close_tab refuses when fewer than two tabs remain.
CanClose(n) == ~(n < 2)

\* close_tab(index)
close_tab(index) ==
    LET w == widget(tabs, index)
        n == Len(tabs)
        tbs == RemoveAt(tabs, index)
        lbls == RemoveAt(labels, index)
        cur == IndexAfterRemove(index, current, n)
    IN  /\ last' = Last("close_tab", index)
        /\ IF ~CanClose(n)
           THEN /\ raised' = ""
                /\ UNCHANGED <<tabs, labels, current, url_bar, windowTitle, deleted,
                               editing, pending, reported>>
           ELSE IF w = None
           THEN \* None.deleteLater()
                /\ raised' = "AttributeError"
                /\ UNCHANGED <<tabs, labels, current, url_bar, windowTitle, deleted,
                               editing, pending, reported>>
           ELSE /\ raised' = ""
                /\ deleted' = deleted + 1
                /\ tabs' = tbs
                /\ pending' = RemoveAt(pending, index)
                /\ reported' = RemoveAt(reported, index)
                /\ current' = cur
                /\ IF RemoveEmitsCurrentChanged(index, current)
                   THEN /\ url_bar' = ui_change_bar(cur, tbs, url_bar)
                        /\ labels' = ui_change_labels(cur, tbs, lbls)
                        /\ windowTitle' = ui_change_window(cur, tbs, windowTitle)
                        /\ editing' = FALSE
                   ELSE /\ url_bar' = url_bar
                        /\ labels' = lbls
                        /\ windowTitle' = windowTitle
                        /\ editing' = editing

\* The tab bar's setCurrentIndex(index) on a click: ignored out of range, silent
\* when index is already current, else currentChanged(index).
switch_tab(index) ==
    /\ last' = Last("switch_tab", index)
    /\ raised' = ""
    /\ IF index >= 0 /\ index < Len(tabs) /\ index # current
       THEN /\ current' = index
            /\ url_bar' = ui_change_bar(index, tabs, url_bar)
            /\ labels' = ui_change_labels(index, tabs, labels)
            /\ windowTitle' = ui_change_window(index, tabs, windowTitle)
            /\ editing' = FALSE
       ELSE UNCHANGED <<current, url_bar, labels, windowTitle, editing>>
    /\ UNCHANGED <<tabs, deleted, pending, reported>>

\* Faulty navigation target: the first page of the tab widget.
NavTargetFirst == widget(tabs, 0)

\* The page currentWidget().setUrl(q) is called on.
NavTarget == currentWidget

\* setUrl(q) on a connected page of the tab widget: url() becomes q, the load is
\* requested, and urlChanged(q) is emitted at once when q differs and runs
\* update_url_bar.
setUrl(browser, q, op) ==
    /\ tabs' = [tabs EXCEPT ![browser + 1].url = q]
    /\ url_bar' = IF q # tabs[browser + 1].url
                  THEN update_url_bar(q, browser, currentWidget, url_bar)
                  ELSE url_bar
    /\ reported' = IF q # tabs[browser + 1].url
                   THEN [reported EXCEPT ![browser + 1] = q]
                   ELSE reported
    /\ raised' = ""
    /\ last' = Last(op, browser)
    /\ UNCHANGED <<labels, current, windowTitle, deleted, pending>>

\* navigate_to_url(): returnPressed in the address bar, which ends the edit.
navigate_to_url ==
    /\ setUrl(NavTarget, ResolveUrl(url_bar), "navigate_to_url")
    /\ editing' = FALSE

\* navigate_home()
navigate_home ==
    /\ setUrl(NavTarget, QUrl(HOME_URL), "navigate_home")
    /\ editing' = (editing /\ QUrl(HOME_URL) = tabs[NavTarget + 1].url)

\* The user edits the address bar.
TypeText(text) ==
    /\ text # url_bar
    /\ url_bar' = text
    /\ raised' = ""
    /\ editing' = TRUE
    /\ last' = Last("edit", 0)
    /\ UNCHANGED <<tabs, labels, current, windowTitle, deleted, pending, reported>>

\* The page's urlChanged(q) signal: url() is q and update_url_bar(q, browser) runs.
on_urlChanged(browser, q) ==
    /\ tabs' = IF browser # Closed THEN [tabs EXCEPT ![browser + 1].url = q] ELSE tabs
    /\ url_bar' = update_url_bar(q, browser, currentWidget, url_bar)
    /\ editing' = (editing /\ browser # currentWidget)
    /\ raised' = ""
    /\ last' = Last("urlChanged", browser)
    /\ UNCHANGED <<labels, current, windowTitle, deleted>>

\* The engine reports a new URL for a live page and the report is delivered at
\* once.
urlChanged(browser, q) ==
    /\ browser \in Alive
    /\ browser # Closed => q # tabs[browser + 1].url
    /\ on_urlChanged(browser, q)
    /\ reported' = IF browser # Closed THEN [reported EXCEPT ![browser + 1] = q]
                   ELSE reported
    /\ UNCHANGED pending

\* The engine reports a new title for a live page: titleChanged(t) runs update_tab_title.
titleChanged(browser, t) ==
    /\ browser \in Alive
    /\ browser # Closed => t # tabs[browser + 1].title
    /\ tabs' = IF browser # Closed THEN [tabs EXCEPT ![browser + 1].title = t] ELSE tabs
    /\ labels' = update_tab_title_labels(t, browser, tabs, labels)
    /\ windowTitle' = update_tab_title_window(t, browser, tabs, currentWidget, windowTitle)
    /\ raised' = ""
    /\ last' = Last("titleChanged", browser)
    /\ UNCHANGED <<current, url_bar, deleted, editing, pending, reported>>

\* The event loop runs the deferred delete of a page closed with deleteLater().
Destroy ==
    /\ deleted > 0
    /\ deleted' = deleted - 1
    /\ raised' = ""
    /\ last' = Last("destroy", 0)
    /\ UNCHANGED <<tabs, labels, current, url_bar, windowTitle, editing, pending, reported>>

Next ==
    \/ \E u \in AddArgs : AddNewTab(u)
    \/ \E type \in WindowTypes : createWindow(type)
    \/ \E index \in Indices : close_tab(index)
    \/ \E index \in Indices : switch_tab(index)
    \/ navigate_to_url
    \/ navigate_home
    \/ \E text \in TypedTexts : TypeText(text)
    \/ \E b \in Alive, q \in EngineUrls : urlChanged(b, q)
    \/ \E b \in Alive, t \in EngineTitles : titleChanged(b, t)
    \/ Destroy

Spec == Init /\ [][Next]_vars

\* Address bar texts of up to MaxTextLen tokens, and the three documented examples.
TextTok == {"https", "localhost", "example", "com", ".", ":", "//", " ", "8080",
            "hello", "world", "?"}
Texts ==
    UNION {[1 .. k -> TextTok] : k \in 0 .. MaxTextLen}
        \cup {<<"https", ":", "//", "x", ".", "org">>}

\* The window after startup with any text typed in the address bar.
InitUrl ==
    /\ tabs = <<[url |-> QUrl(DEFAULT_URL), title |-> EmptyTitle]>>
    /\ labels = <<EmptyTitle>>
    /\ current = 0
    /\ url_bar \in Texts
    /\ windowTitle = WindowTitle(EmptyTitle)
    /\ deleted = 0
    /\ raised = ""
    /\ editing = TRUE
    /\ pending = <<NoEvents>>
    /\ reported = <<QUrl(DEFAULT_URL)>>
    /\ last = [op |-> "edit", arg |-> 0, cur |-> 0, n |-> 1]

NextUrl == navigate_to_url

SpecUrl == InitUrl /\ [][NextUrl]_vars

\* Two tabs on different URLs, either one current, nothing typed and no report
\* in flight: the window after add_new_tab("https://b.test"), and after
\* selecting the first tab again.
InitEvents ==
    /\ tabs = <<[url |-> QUrl(DEFAULT_URL), title |-> EmptyTitle],
                [url |-> QUrl(B_TEST), title |-> EmptyTitle]>>
    /\ labels = <<EmptyTitle, EmptyTitle>>
    /\ current \in {0, 1}
    /\ url_bar = toString(tabs[current + 1].url)
    /\ windowTitle = WindowTitle(EmptyTitle)
    /\ deleted = 0
    /\ raised = ""
    /\ editing = FALSE
    /\ pending = <<NoEvents, NoEvents>>
    /\ reported = <<QUrl(DEFAULT_URL), QUrl(B_TEST)>>
    /\ last = [op |-> "init", arg |-> 0, cur |-> current, n |-> 2]

\* The engine of a page reports a URL; the report waits for the event loop.
EngineReports(browser, q) ==
    /\ browser \in 0 .. Len(tabs) - 1
    /\ Len(pending[browser + 1]) < MaxPending
    /\ pending' = [pending EXCEPT ![browser + 1] = Append(@, q)]
    /\ reported' = [reported EXCEPT ![browser + 1] = q]
    /\ raised' = ""
    /\ last' = Last("report", browser)
    /\ UNCHANGED <<tabs, labels, current, url_bar, windowTitle, deleted, editing>>

\* The event loop delivers the oldest waiting report of a page: urlChanged is
\* emitted when the URL differs from url().
Deliver(browser) ==
    /\ browser \in 0 .. Len(tabs) - 1
    /\ pending[browser + 1] # NoEvents
    /\ LET q == Head(pending[browser + 1])
       IN  IF q # tabs[browser + 1].url
           THEN on_urlChanged(browser, q)
           ELSE UNCHANGED <<tabs, labels, current, url_bar, windowTitle, deleted,
                            raised, editing, last>>
    /\ pending' = [pending EXCEPT ![browser + 1] = Tail(@)]
    /\ UNCHANGED reported

\* navigate_home() while no report of the current page is waiting.
NavigateHomeIdle ==
    /\ pending[current + 1] = NoEvents
    /\ navigate_home

NextEvents ==
    \/ \E b \in 0 .. 1, q \in EngineUrls : EngineReports(b, q)
    \/ \E b \in 0 .. 1 : Deliver(b)
    \/ NavigateHomeIdle

\* The event loop delivers every waiting report.
FairEvents == \A b \in 0 .. 1 : WF_vars(Deliver(b))

SpecEvents == InitEvents /\ [][NextEvents]_vars /\ FairEvents

TypeOK ==
    /\ Len(tabs) \in 1 .. MaxBrowsers
    /\ Len(labels) = Len(tabs)
    /\ deleted \in 0 .. MaxBrowsers

----------------------------------------------------------------------------
(* Properties *)

InRange(index, n) == index >= 0 /\ index < n

\* C1: in every reachable state the tab widget holds at least one page.
C1_TabsNeverEmpty == Len(tabs) >= 1

\* close_tab has just been refused on the last remaining tab, after earlier closes.
C1_Witness ==
    /\ last.op = "close_tab"
    /\ last.n = 1
    /\ InRange(last.arg, last.n)
    /\ deleted > 0
    /\ Len(tabs) = 1

\* C2: in every reachable state 0 <= currentIndex() < count(); in particular
\* after the current tab was closed.
C2_ActiveIndexValid == current >= 0 /\ current < Len(tabs)

\* The current tab, the last of at least two, has just been closed.
C2_Witness ==
    /\ last.op = "close_tab"
    /\ last.n >= 2
    /\ last.arg = last.cur
    /\ last.arg = last.n - 1
    /\ Len(tabs) = last.n - 1

\* C3: close_tab(index), for any index, on a window with exactly one tab leaves
\* the pages, the tab texts and the current index unchanged and releases no page.
C3_CloseLastTabNoOp ==
    [][(last'.op = "close_tab" /\ Len(tabs) = 1)
        => /\ tabs' = tabs
           /\ labels' = labels
           /\ current' = current
           /\ deleted' = deleted]_vars

\* close_tab(0) has just run on a window with exactly one tab.
C3_Witness ==
    /\ last.op = "close_tab"
    /\ last.n = 1
    /\ last.arg = 0
    /\ raised = ""

\* C4: close_tab(index) with index out of range on a window with two or more
\* tabs changes nothing, releases no page and raises no error.
C4_CloseOutOfRangeSilent ==
    [][(last'.op = "close_tab" /\ Len(tabs) >= 2 /\ ~InRange(last'.arg, Len(tabs)))
        => /\ tabs' = tabs
           /\ current' = current
           /\ url_bar' = url_bar
           /\ deleted' = deleted
           /\ raised' = ""]_vars

\* C5: add_new_tab(url) appends exactly one page after the existing ones, makes
\* it current and loads url in it, or the home URL when url is omitted, and
\* raises nothing.
C5_AddTabAppends ==
    [][last'.op = "add_new_tab"
        => /\ Len(tabs') = Len(tabs) + 1
           /\ SubSeq(tabs', 1, Len(tabs)) = tabs
           /\ current' = Len(tabs)
           /\ IF last'.arg = 0
              THEN tabs'[Len(tabs')].url = QUrl(HOME_URL)
              ELSE tabs'[Len(tabs')].url \in AddUrls
           /\ raised' = ""]_vars

\* add_new_tab without a url has just added a third tab on the home URL.
C5_Witness ==
    /\ last.op = "add_new_tab"
    /\ last.arg = 0
    /\ last.n = 2
    /\ Len(tabs) = 3
    /\ current = 2
    /\ tabs[3].url = QUrl(HOME_URL)

\* The schemes a reader takes as recognized URL schemes.
RecognizedSchemes == {"http", "https", "ftp", "file"}

HasRecognizedScheme(text) ==
    /\ Len(text) >= 2
    /\ text[1] \in RecognizedSchemes
    /\ text[2] = ":"

\* The URL the stated precedence gives for an address bar text.
ClaimedUrl(text) ==
    IF HasRecognizedScheme(text) THEN text
    ELSE IF HasDot(text) THEN HttpsPrefix \o text
    ELSE SearchPrefix \o text

\* C6: navigate_to_url loads the text unchanged when it has a recognized URL
\* scheme, else "https://" + text when it contains a ".", else the search URL
\* "https://www.google.com/search?q=" + text.
C6_ResolvePrecedence ==
    [][last'.op = "navigate_to_url"
        => toString(tabs'[current + 1].url) = ClaimedUrl(url_bar)]_vars

\* C7: urlChanged from a page that is not the current one leaves the address
\* bar text as it is.
C7_BackgroundUrlIgnored ==
    [][(last'.op = "urlChanged" /\ last'.arg # current) => url_bar' = url_bar]_vars

\* A background page of the tab widget has just reported a URL other than the
\* one the address bar shows.
C7_Witness ==
    /\ last.op = "urlChanged"
    /\ InRange(last.arg, Len(tabs))
    /\ last.arg # current
    /\ toString(tabs[last.arg + 1].url) # url_bar
    /\ toString(tabs[current + 1].url) = url_bar

\* C8 as stated: titleChanged from a page that is not the current one changes no
\* tab text and not the window title.
C8_BackgroundTitleIgnored ==
    [][(last'.op = "titleChanged" /\ last'.arg # current)
        => labels' = labels /\ windowTitle' = windowTitle]_vars

\* C8 amended: titleChanged from a page that is not the current one sets that
\* page's own tab text to the new title (when it is still in the tab widget) and
\* changes neither another tab's text nor the window title.
C8_BackgroundTitleOwnLabelOnly ==
    [][(last'.op = "titleChanged" /\ last'.arg # current)
        => /\ windowTitle' = windowTitle
           /\ Len(labels') = Len(labels)
           /\ \A i \in 1 .. Len(labels) :
                IF i = last'.arg + 1
                THEN labels'[i] = tabs'[i].title
                ELSE labels'[i] = labels[i]]_vars

\* A background page has just reported a title other than the current page's:
\* its tab shows it and the window title does not.
C8_Witness ==
    /\ last.op = "titleChanged"
    /\ InRange(last.arg, Len(tabs))
    /\ last.arg # current
    /\ labels[last.arg + 1] = tabs[last.arg + 1].title
    /\ tabs[last.arg + 1].title # tabs[current + 1].title
    /\ windowTitle = WindowTitle(tabs[current + 1].title)

\* C9: close_tab(index) with index in range on n >= 2 tabs removes exactly the
\* page at index, the others keeping their order, releases it, and when it was
\* the current one makes min(index, n - 2) current.
C9_CloseRemovesAndClamps ==
    [][(last'.op = "close_tab" /\ Len(tabs) >= 2 /\ InRange(last'.arg, Len(tabs)))
        => LET index == last'.arg
               n == Len(tabs)
           IN  /\ Len(tabs') = n - 1
               /\ \A i \in 1 .. n - 1 :
                    tabs'[i] = IF i <= index THEN tabs[i] ELSE tabs[i + 1]
               /\ deleted' = deleted + 1
               /\ raised' = ""
               /\ index = current
                    => current' = IF index < n - 2 THEN index ELSE n - 2]_vars

\* The current tab, the middle one of three different pages, has just been closed.
C9_Witness ==
    /\ last.op = "close_tab"
    /\ last.n = 3
    /\ last.arg = 1
    /\ last.cur = 1
    /\ Len(tabs) = 2
    /\ current = 1
    /\ tabs[1] # tabs[2]
    /\ deleted >= 1

\* C10: closing a tab that is not the current one keeps the same page current
\* (the current index drops by one when the closed index was below it); and in
\* the scenario [A], add_new_tab("https://b.test"), close_tab(0), close_tab(0):
\* the pages become [A, B] with B current, then [B] with index 0 current, and
\* the last close is refused.
C10_CloseOtherKeepsActive ==
    [][/\ (last'.op = "close_tab" /\ Len(tabs) >= 2 /\ InRange(last'.arg, Len(tabs))
             /\ last'.arg # current)
          => /\ current' = IF last'.arg < current THEN current - 1 ELSE current
             /\ InRange(current', Len(tabs'))
             /\ tabs'[current' + 1] = tabs[current + 1]
       /\ (last'.op = "add_new_tab" /\ last'.arg = 1 /\ Len(tabs) = 1)
          => /\ tabs' = <<tabs[1], [url |-> QUrl(B_TEST), title |-> EmptyTitle]>>
             /\ current' = 1
       /\ (last'.op = "close_tab" /\ last'.arg = 0 /\ Len(tabs) = 2 /\ current = 1)
          => tabs' = <<tabs[2]>> /\ current' = 0
       /\ (last'.op = "close_tab" /\ last'.arg = 0 /\ Len(tabs) = 1)
          => tabs' = tabs /\ current' = current]_vars

\* The first of two tabs, not the current one, has just been closed: the page
\* on https://b.test that was current is the only one left, at index 0.
C10_Witness ==
    /\ last.op = "close_tab"
    /\ last.arg = 0
    /\ last.n = 2
    /\ last.cur = 1
    /\ tabs = <<[url |-> QUrl(B_TEST), title |-> EmptyTitle]>>
    /\ current = 0
    /\ deleted = 1

\* C11 as stated: selecting an index out of range changes nothing, and selecting
\* any index in range makes it current and sets the address bar to that page's
\* URL and the tab text and window title to its title.
C11_SwitchRefreshes ==
    [][last'.op = "switch_tab"
        => LET index == last'.arg
           IN  IF InRange(index, Len(tabs))
               THEN /\ current' = index
                    /\ tabs' = tabs
                    /\ url_bar' = toString(tabs[index + 1].url)
                    /\ labels'[index + 1] = tabs[index + 1].title
                    /\ windowTitle' = WindowTitle(tabs[index + 1].title)
               ELSE UNCHANGED <<tabs, current, url_bar, labels, windowTitle>>]_vars

\* C11: selecting an index out of range, or the index that is already current,
\* changes nothing (text typed in the address bar stays); selecting another
\* index in range makes it current and, in the same step, sets the address bar
\* to that page's URL and the tab text and window title to its title.
C11_SwitchToOtherRefreshes ==
    [][last'.op = "switch_tab"
        => LET index == last'.arg
           IN  IF InRange(index, Len(tabs)) /\ index # current
               THEN /\ current' = index
                    /\ tabs' = tabs
                    /\ url_bar' = toString(tabs[index + 1].url)
                    /\ labels'[index + 1] = tabs[index + 1].title
                    /\ windowTitle' = WindowTitle(tabs[index + 1].title)
               ELSE UNCHANGED <<tabs, current, url_bar, labels, windowTitle>>]_vars

\* The first of two tabs has just been selected while the second was current:
\* the bar shows the first page's URL, which differs from the second page's,
\* and the window title shows the first page's title.
C11_Witness ==
    /\ last.op = "switch_tab"
    /\ last.arg = 0
    /\ last.cur = 1
    /\ current = 0
    /\ Len(tabs) = 2
    /\ tabs[1].url # tabs[2].url
    /\ tabs[1].title # tabs[2].title
    /\ url_bar = toString(tabs[1].url)
    /\ windowTitle = WindowTitle(tabs[1].title)

\* The tab commands and the engine's URL and title events.
TabCommandOrEvent ==
    {"add_new_tab", "close_tab", "switch_tab", "urlChanged", "titleChanged"}

\* C12: whenever the user is not editing the address bar, after every tab
\* command (add, close, switch) and every handled engine event the address bar
\* text is the URL of the current page.
C12_BarMirrorsActiveUrl ==
    (last.op \in TabCommandOrEvent /\ raised = "" /\ ~editing)
        => url_bar = toString(tabs[current + 1].url)

\* C13: every new-window request of the engine, whatever the window type, makes
\* the window create exactly one new page, appended to the tabs and made current.
C13_NewWindowAlwaysAddsTab ==
    [][last'.op = "createWindow"
        => /\ Len(tabs') = Len(tabs) + 1
           /\ \A i \in 1 .. Len(tabs) : tabs'[i] = tabs[i]
           /\ current' = Len(tabs)]_vars

\* The URLs navigate_to_url may request for the text of the address bar.
RequestsFor(text) == {QUrl(text), QUrl(HttpsPrefix \o text), QUrl(SearchPrefix \o text)}

\* C14: navigate_to_url and navigate_home request a navigation on the current
\* page only (to a URL made from the address bar text, to HOME_URL): the pages,
\* their order and the current index stay, and no other page's URL changes.
C14_NavigatesActiveOnly ==
    [][last'.op \in {"navigate_to_url", "navigate_home"}
        => /\ Len(tabs') = Len(tabs)
           /\ current' = current
           /\ \A i \in 1 .. Len(tabs) :
                 /\ i # current + 1 => tabs'[i] = tabs[i]
                 /\ tabs'[i].title = tabs[i].title
           /\ last'.op = "navigate_home"
                 => tabs'[current + 1].url = QUrl(HOME_URL)
           /\ last'.op = "navigate_to_url"
                 => tabs'[current + 1].url \in RequestsFor(url_bar)]_vars

\* navigate_home has just run with the second of two tabs current while the
\* first was on another URL: the second is on HOME_URL, the first where it was.
C14_Witness ==
    /\ last.op = "navigate_home"
    /\ Len(tabs) = 2
    /\ current = 1
    /\ tabs[2].url = QUrl(HOME_URL)
    /\ tabs[1].url = QUrl(B_TEST)
    /\ url_bar = toString(QUrl(HOME_URL))

\* C16: a urlChanged or titleChanged event delivered for a page after it was
\* closed changes nothing: the address bar, every remaining tab text, the window
\* title, the pages and the current index stay as they were.
C16_ClosedPageEventIgnored ==
    [][(last'.op \in {"urlChanged", "titleChanged"} /\ last'.arg = Closed)
        => UNCHANGED <<url_bar, labels, windowTitle, tabs, current>>]_vars

\* An event of a closed page, not yet destroyed, has just been handled while two
\* tabs with different URLs and titles remained.
C16_Witness ==
    /\ last.op \in {"urlChanged", "titleChanged"}
    /\ last.arg = Closed
    /\ deleted >= 1
    /\ Len(tabs) = 2
    /\ tabs[1].url # tabs[2].url
    /\ tabs[1].title # tabs[2].title

\* C17: in every reachable state (after startup and any tab commands and title
\* events) the window title is "Python Browser - " followed by the current
\* title of the current page.
C17_WindowTitleFollowsActive ==
    windowTitle = WindowTitle(tabs[current + 1].title)

\* The current tab has just been closed and the page that became current has a
\* title other than the empty one and than the other remaining page's: the
\* window title shows it.
C17_Witness ==
    /\ last.op = "close_tab"
    /\ raised = ""
    /\ last.n = 3
    /\ last.arg = last.cur
    /\ Len(tabs) = 2
    /\ tabs[current + 1].title # EmptyTitle
    /\ tabs[1].title # tabs[2].title
    /\ windowTitle = WindowTitle(tabs[current + 1].title)

====
